---- MODULE Spec2Model ----
(***************************************************************************)
(* Audero Sticky: a polyfill for CSS position: sticky.                     *)
(*                                                                         *)
(* The model follows the ES2015 source of the library (Sticky class,       *)
(* helpers/store.js, helpers/style.js).  The browser is modelled by what   *)
(* the library reads from it and writes to it: inline styles, class lists, *)
(* the children of each element's parent, the listeners of the window,     *)
(* the expando properties of the elements, computed styles (the cascade of *)
(* inline style over the page's stylesheet) and bounding boxes (in-flow    *)
(* boxes move with the scroll offset, fixed boxes do not).                 *)
(*                                                                         *)
(* Strings and numbers are kept apart: a CSS value is a pair <<kind, n>>   *)
(* ("px", "int", "auto", "" or a keyword) and a JavaScript number is       *)
(* <<"num", n>> or NaN, so that parseFloat, Number and the `${n}px`        *)
(* template are real conversions.                                          *)
(*                                                                         *)
(* Page assumptions (README, Usage): the offsets top/bottom are declared   *)
(* in the stylesheet, box-sizing is border-box, and a script that builds a *)
(* Sticky object on an element itself passes the options the page has for  *)
(* that element.                                                           *)
(***************************************************************************)
EXTENDS Integers, Sequences, FiniteSets, TLC

\* ------------------------------------------------------------------ bounds
\* Largest vertical scroll offset of the window.
MaxScroll == 5

\* ---------------------------------------------------------------- elements
\* The sticky candidates of the page, numbered in document order.
AllElements == {1, 2}

\* ------------------------------------------------------------- JS / CSS values
Empty == <<"", 0>>
Auto == <<"auto", 0>>
Px(n) == <<"px", n>>
IntStr(n) == <<"int", n>>
Kw(s) == <<s, 0>>
NaN == <<"NaN", 0>>
Num(n) == <<"num", n>>
Undefined == [undefined |-> TRUE]
\* undefined where a number is expected
NoNumber == <<"undefined", 0>>

IsNaN(x) == x[1] = "NaN"

\* parseFloat(string): the leading number of the string, NaN when there is none
parseFloat(v) == IF v[1] \in {"px", "int"} THEN Num(v[2]) ELSE NaN

\* Number(string): the whole string as a number, NaN otherwise
ToNumber(v) == IF v[1] = "int" THEN Num(v[2]) ELSE NaN

\* x || 0 on numbers: NaN and 0 are falsy
OrZero(x) == IF IsNaN(x) \/ x = Num(0) THEN Num(0) ELSE x

Plus(a, b) == IF IsNaN(a) \/ IsNaN(b) THEN NaN ELSE Num(a[2] + b[2])
Minus(a, b) == IF IsNaN(a) \/ IsNaN(b) THEN NaN ELSE Num(a[2] - b[2])
Neg(a) == IF IsNaN(a) THEN NaN ELSE Num(0 - a[2])
Geq(a, b) == ~IsNaN(a) /\ ~IsNaN(b) /\ a[2] >= b[2]
Leq(a, b) == ~IsNaN(a) /\ ~IsNaN(b) /\ a[2] <= b[2]

\* the template literal `${x}px`
PxString(x) == IF IsNaN(x) THEN <<"NaNpx", 0>> ELSE Px(x[2])

\* String(x), as done by the style setter for a number
NumString(x) == IF IsNaN(x) THEN <<"NaN", 0>> ELSE IntStr(x[2])

\* --------------------------------------------------------------- constants
defaults == [selector |-> ".sticky", activeClass |-> "sticky--active"]

properties == <<"width", "height", "left", "marginLeft", "marginRight", "zIndex">>

namespace == "auderosticky"

\* the properties cleanUp would reset if it left top and bottom alone
cleanUpPropertiesWithoutOffsets == properties \o <<"marginTop", "marginBottom">>

\* the properties cleanUp resets
cleanUpProperties == properties \o <<"marginTop", "marginBottom", "top", "bottom">>

StyleProps == {"position", "visibility", "width", "height", "left", "marginLeft",
               "marginRight", "zIndex", "top", "bottom", "marginTop", "marginBottom"}

EmptyStyle == [p \in StyleProps |-> Empty]

\* CSSStyleDeclaration setter: a value the property cannot take is ignored
StyleSet(style, property, value) ==
    IF value[1] \in {"NaNpx", "NaN"} THEN style
    ELSE [style EXCEPT ![property] = value]

\* ------------------------------------------------------------ helpers/style
RECURSIVE resetStyleProperties(_, _)
resetStyleProperties(style, props) ==
    IF props = <<>> THEN style
    ELSE resetStyleProperties(StyleSet(style, Head(props), Empty), Tail(props))

RECURSIVE copyStyleProperties(_, _, _)
copyStyleProperties(style, blueprintStyle, props) ==
    IF props = <<>> THEN style
    ELSE copyStyleProperties(StyleSet(style, Head(props), blueprintStyle[Head(props)]),
                             blueprintStyle, Tail(props))

\* ------------------------------------------------------------ helpers/store
\* An object is the function from its expando property names to their values.
Namespaces == {namespace, "other"}
\* the property argument left out
NoProperty == "<none>"

\* values other than objects are kept as one-field records; the number 0
Zero == [number |-> 0]

\* ToBoolean of a stored value: undefined and 0 are falsy, an object is not
Truthy(v) == v # Undefined /\ v # Zero

\* ToBoolean of the property argument: undefined and the empty string are falsy
TruthyProperty(property) == property # NoProperty /\ property # ""

\* value[property]: undefined for a property the value does not have
ReadProperty(value, property) ==
    IF property \in DOMAIN value THEN value[property] ELSE Undefined

getData(ns, object, property) ==
    IF Truthy(object[ns]) /\ TruthyProperty(property)
    THEN ReadProperty(object[ns], property)
    ELSE object[ns]

setData(ns, object, value) == [object EXCEPT ![ns] = value]

removeData(ns, object) == [object EXCEPT ![ns] = Undefined]

\* ------------------------------------------------------------------- state
VARIABLES
    doc,          \* the elements present in the document
    sheet,        \* per element: what the page's stylesheet declares for it
    options,      \* per element: the options its Sticky objects are built with
    layout,       \* per element: the geometry of its parent and of its in-flow box
    pageYOffset,  \* window.pageYOffset
    innerHeight,  \* window.innerHeight
    style,        \* per element: element.style (inline style)
    classList,    \* per element: element.classList
    expando,      \* per element: the properties scripts have put on the node
    children,     \* per element: the child nodes of its parent, in order
    listeners,    \* the event listeners of the window, in registration order
    fired,        \* per element: the events dispatched on it by the last operation
    seen,         \* per element: what a listener of each of these events found on it
    lastEvent,    \* per element: the event dispatched on it before that, if any
    measured,     \* per element: the boundaries its scroll handler computed last, in the last operation
    preInit,      \* per element: element.style as it was when init() was entered
    op            \* the last operation: its name, its element, the error it threw

vars == <<doc, sheet, options, layout, pageYOffset, innerHeight, style, classList,
          expando, children, listeners, fired, seen, lastEvent, measured, preInit, op>>

NoError == "none"
NoEvent == "none"
NoBoundaries == [start |-> NaN, end |-> NaN, on |-> "none"]

\* The mutable part of the page, threaded through the library's functions.
\* `live` holds the identities of the functions the call stack refers to and
\* `error` the exception in flight.
World ==
    [layout |-> layout, pageYOffset |-> pageYOffset, innerHeight |-> innerHeight,
     style |-> style, classList |-> classList, expando |-> expando,
     children |-> children, listeners |-> listeners,
     fired |-> [e \in AllElements |-> <<>>],
     seen |-> [e \in AllElements |-> <<>>],
     measured |-> [e \in AllElements |-> NoBoundaries],
     live |-> {}, error |-> NoError]

Throw(w, message) == [w EXCEPT !.error = message]

\* ----------------------------------------------------------------- browser
ElNode(e) == [kind |-> "element", id |-> e]
PhNode(id) == [kind |-> "placeholder", id |-> id]

IndexOf(seq, x) ==
    IF \E i \in 1..Len(seq) : seq[i] = x
    THEN CHOOSE i \in 1..Len(seq) : seq[i] = x /\ \A j \in 1..(i - 1) : seq[j] # x
    ELSE 0

Remove(seq, x) == SelectSeq(seq, LAMBDA y : y # x)

\* placeholder.parentNode always read as null
NeverHasParent(w, e, placeholder) == FALSE

\* placeholder.parentNode, as a truth value
HasParent(w, e, placeholder) == IndexOf(w.children[e], PhNode(placeholder.id)) # 0

\* parent.insertBefore(node, reference): a node already in the tree is moved
insertBefore(kids, node, reference) ==
    LET rest == Remove(kids, node)
        i == IndexOf(rest, reference)
    IN  SubSeq(rest, 1, i - 1) \o <<node>> \o SubSeq(rest, i, Len(rest))

\* parent.removeChild(node) leaving the node where it is
removeChildNothing(kids, node) == kids

removeChild(kids, node) == Remove(kids, node)

\* the least identity no live object has
Fresh(used) == CHOOSE n \in 0..Cardinality(used) :
                   n \notin used /\ \A m \in 0..(n - 1) : m \in used

PlaceholderIds(w) ==
    UNION {{w.children[e][i].id : i \in {j \in 1..Len(w.children[e]) :
                                          w.children[e][j].kind = "placeholder"}} :
           e \in AllElements} \cup
    {w.expando[e][namespace].placeholder.id :
        e \in {x \in AllElements : Truthy(w.expando[x][namespace])}}

HandlerIds(w) ==
    {w.listeners[i].fn.id : i \in 1..Len(w.listeners)} \cup w.live \cup
    {w.expando[e][namespace].handlers.scroll.id :
        e \in {x \in AllElements : Truthy(w.expando[x][namespace])}} \cup
    {w.expando[e][namespace].handlers.resize.id :
        e \in {x \in AllElements : Truthy(w.expando[x][namespace])}}

\* document.createElement(element.nodeName)
createElement(w) == [id |-> Fresh(PlaceholderIds(w)), style |-> EmptyStyle]

\* window.getComputedStyle(element): inline style over the stylesheet.  The rule
\* for the active class gives the margins of the sticking element; an element
\* whose position is static reports z-index auto (WebKit bug 15562); an element
\* laid out as an inline box reports height auto.
ComputedPosition(w, e) ==
    IF w.style[e].position # Empty THEN w.style[e].position ELSE Kw("static")

ComputedStyle(w, e) ==
    LET inline == w.style[e]
        active == sheet[e].activeRule \in w.classList[e]
        Over(p, declared) == IF inline[p] # Empty THEN inline[p] ELSE declared
    IN  [top |-> Over("top", sheet[e].top),
         bottom |-> Over("bottom", sheet[e].bottom),
         marginTop |-> Over("marginTop", IF active THEN sheet[e].activeMarginTop
                                                    ELSE sheet[e].marginTop),
         marginBottom |-> Over("marginBottom", IF active THEN sheet[e].activeMarginBottom
                                                          ELSE sheet[e].marginBottom),
         marginLeft |-> Over("marginLeft", Px(0)),
         marginRight |-> Over("marginRight", Px(0)),
         height |-> IF w.layout[e].heightAuto THEN Auto ELSE Px(w.layout[e].height),
         zIndex |-> IF ComputedPosition(w, e) = Kw("static") THEN Auto
                    ELSE Over("zIndex", sheet[e].zIndex)]

\* window.getComputedStyle(placeholder): no rule of the stylesheet selects it
PlaceholderComputedStyle(placeholder) ==
    [top |-> IF placeholder.style.top # Empty THEN placeholder.style.top ELSE Auto,
     bottom |-> IF placeholder.style.bottom # Empty THEN placeholder.style.bottom ELSE Auto]

\* the top edge of the element's in-flow box, in document coordinates
FlowTop(w, e) == w.layout[e].parentTop + w.layout[e].offset

\* element.getBoundingClientRect(), relative to the viewport.  An inline width
\* is the width of the box; without one a box in the flow fills its parent
\* and a fixed box shrinks to fit its content.
ElementRect(w, e) ==
    LET cs == ComputedStyle(w, e)
        h == w.layout[e].height
        width == IF w.style[e].width # Empty THEN w.style[e].width[2]
                 ELSE IF ComputedPosition(w, e) = Kw("fixed") THEN w.layout[e].fixedWidth
                 ELSE w.layout[e].width
        top == IF ComputedPosition(w, e) # Kw("fixed") THEN FlowTop(w, e) - w.pageYOffset
               ELSE IF cs.top # Auto THEN cs.top[2]
               ELSE IF cs.bottom # Auto THEN w.innerHeight - cs.bottom[2] - h
               ELSE FlowTop(w, e) - w.pageYOffset
    IN  [top |-> Num(top), bottom |-> Num(top + h), height |-> Num(h),
         left |-> Num(w.layout[e].left), width |-> Num(width)]

\* placeholder.getBoundingClientRect(): in the tree it takes the element's place
\* in the flow with the height it was given; out of the tree it has no box
PlaceholderRect(w, e, placeholder) ==
    IF HasParent(w, e, placeholder)
    THEN LET h == OrZero(parseFloat(placeholder.style.height))[2]
             top == FlowTop(w, e) - w.pageYOffset
         IN  [top |-> Num(top), bottom |-> Num(top + h), height |-> Num(h)]
    ELSE [top |-> Num(0), bottom |-> Num(0), height |-> Num(0)]

\* element.parentNode.getBoundingClientRect()
ParentRect(w, e) ==
    [top |-> Num(w.layout[e].parentTop - w.pageYOffset),
     bottom |-> Num(w.layout[e].parentTop + w.layout[e].parentHeight - w.pageYOffset)]

\* document.querySelectorAll(selector): the elements of the document the
\* selector matches, in document order
RECURSIVE Ascending(_)
Ascending(S) ==
    IF S = {} THEN <<>>
    ELSE LET m == CHOOSE x \in S : \A y \in S : x <= y
         IN  <<m>> \o Ascending(S \ {m})

querySelectorAll(selector) ==
    Ascending({e \in doc : selector \in sheet[e].matches})

\* window.addEventListener / removeEventListener: a listener is identified by
\* its type, its callback and its capture flag, and is registered at most once
addEventListener(w, type, fn, capture) ==
    LET l == [type |-> type, fn |-> fn, capture |-> capture]
    IN  IF IndexOf(w.listeners, l) # 0 THEN w
        ELSE [w EXCEPT !.listeners = Append(@, l)]

\* removeEventListener taking off every listener of the type, whatever its callback
removeEventListenerOfType(w, type, fn, capture) ==
    [w EXCEPT !.listeners = SelectSeq(@, LAMBDA l : l.type # type)]

removeEventListener(w, type, fn, capture) ==
    [w EXCEPT !.listeners = Remove(@, [type |-> type, fn |-> fn, capture |-> capture])]

\* helpers/event-emitter: dispatches a bubbling, cancelable event on the element
\* and its listeners run at once: what they find on the element is recorded
fireEvent(w, event, e) ==
    [w EXCEPT !.fired[e] = Append(@, event),
              !.seen[e] = Append(@, [event |-> event,
                                     position |-> w.style[e].position,
                                     attached |-> \E i \in 1..Len(w.children[e]) :
                                                     w.children[e][i].kind = "placeholder",
                                     classList |-> w.classList[e]])]

\* ------------------------------------------------------------------ Sticky
\* Object.assign({}, defaults, options) reading the class from activeClassName
AssignClassName(base, over) ==
    [k \in (DOMAIN base) \cup (DOMAIN over) |->
        IF k = "activeClass" /\ "activeClassName" \in DOMAIN over THEN over.activeClassName
        ELSE IF k \in DOMAIN over THEN over[k] ELSE base[k]]

\* Object.assign({}, defaults, options)
Assign(base, over) ==
    [k \in (DOMAIN base) \cup (DOMAIN over) |->
        IF k \in DOMAIN over THEN over[k] ELSE base[k]]

\* new Sticky(element, options)
Sticky(e, opts) == [element |-> e, settings |-> Assign(defaults, opts)]

Data(w, e) == getData(namespace, w.expando[e], NoProperty)

\* getStickyMargins reading the margins without the active class on the element
getStickyMarginsWithoutClass(w, sticky) ==
    [w |-> w, ret |-> [marginBottom |-> ComputedStyle(w, sticky.element).marginBottom,
                       marginTop |-> ComputedStyle(w, sticky.element).marginTop]]

getStickyMargins(w, sticky) ==
    LET e == sticky.element
        w1 == [w EXCEPT !.classList[e] = @ \cup {sticky.settings.activeClass}]
        elementStyle == ComputedStyle(w1, e)
        stickyMargins == [marginBottom |-> elementStyle.marginBottom,
                          marginTop |-> elementStyle.marginTop]
        w2 == [w1 EXCEPT !.classList[e] = @ \ {sticky.settings.activeClass}]
    IN  [w |-> w2, ret |-> stickyMargins]

getComputedZIndex(w, e) ==
    LET position == w.style[e].position
        w1 == [w EXCEPT !.style[e] = StyleSet(@, "position", Kw("relative"))]
        zIndex == ToNumber(ComputedStyle(w1, e).zIndex)
        w2 == [w1 EXCEPT !.style[e] = StyleSet(@, "position", position)]
    IN  [w |-> w2, ret |-> IF ~IsNaN(zIndex) THEN zIndex ELSE NoNumber]

\* getZIndex taking a computed z-index of 0 for none
getZIndexZeroAsNone(w, e, selector) ==
    LET r == getComputedZIndex(w, e)
        stickyElements == querySelectorAll(selector)
    IN  IF r.ret # NoNumber /\ r.ret # Num(0) THEN r
        ELSE [w |-> r.w, ret |-> Num(IndexOf(stickyElements, e))]

getZIndex(w, e, selector) ==
    LET r == getComputedZIndex(w, e)
        stickyElements == querySelectorAll(selector)
    IN  IF r.ret # NoNumber THEN r
        ELSE [w |-> r.w, ret |-> Num(IndexOf(stickyElements, e))]

convertNumbersToPixels(propertiesHash) ==
    [property \in DOMAIN propertiesHash |-> PxString(propertiesHash[property])]

\* cleanUp leaving the placeholder in the document
cleanUpKeepsPlaceholder(w, sticky) ==
    LET e == sticky.element
        data == Data(w, e)
        reset == resetStyleProperties(w.style[e], cleanUpProperties)
    IN  IF ~Truthy(data) THEN Throw([w EXCEPT !.style[e] = reset], "TypeError")
        ELSE [w EXCEPT !.style[e] = StyleSet(reset, "position", data.position)]

\* cleanUp resetting only `properties`, not the offsets and vertical margins
cleanUpForgetsOffsets(w, sticky) ==
    LET e == sticky.element
        data == Data(w, e)
        reset == resetStyleProperties(w.style[e], properties)
    IN  IF ~Truthy(data) THEN Throw([w EXCEPT !.style[e] = reset], "TypeError")
        ELSE [w EXCEPT !.style[e] = StyleSet(reset, "position", data.position),
                       !.children[e] = IF HasParent(w, e, data.placeholder)
                                       THEN removeChild(@, PhNode(data.placeholder.id))
                                       ELSE @]

cleanUp(w, sticky) ==
    LET e == sticky.element
        data == Data(w, e)
        reset == resetStyleProperties(w.style[e], cleanUpProperties)
    IN  IF ~Truthy(data) THEN Throw([w EXCEPT !.style[e] = reset], "TypeError")
        ELSE [w EXCEPT !.style[e] = StyleSet(reset, "position", data.position),
                       !.children[e] = IF HasParent(w, e, data.placeholder)
                                       THEN removeChild(@, PhNode(data.placeholder.id))
                                       ELSE @]

\* calculateBoundaries taking the sticky margins as they parse, NaN included
calculateBoundariesMarginAsIs(w, e, node, stickyMargins) ==
    LET onElement == node = ElNode(e)
        placeholder == Data(w, e).placeholder
        elementStyle == IF onElement THEN ComputedStyle(w, e)
                        ELSE PlaceholderComputedStyle(placeholder)
        rect == IF onElement THEN ElementRect(w, e) ELSE PlaceholderRect(w, e, placeholder)
        parentStyle == ParentRect(w, e)
        start == IF elementStyle.top # Auto
                 THEN Minus(rect.top, parseFloat(elementStyle.top))
                 ELSE Plus(rect.bottom, parseFloat(elementStyle.bottom))
        end == IF elementStyle.top # Auto
               THEN Minus(parentStyle.bottom, parseFloat(stickyMargins.marginBottom))
               ELSE Plus(parentStyle.top, parseFloat(stickyMargins.marginTop))
    IN  [start |-> Plus(start, Num(w.pageYOffset)), end |-> Plus(end, Num(w.pageYOffset))]

\* calculateBoundaries leaving the boundaries relative to the viewport
calculateBoundariesViewport(w, e, node, stickyMargins) ==
    LET onElement == node = ElNode(e)
        placeholder == Data(w, e).placeholder
        elementStyle == IF onElement THEN ComputedStyle(w, e)
                        ELSE PlaceholderComputedStyle(placeholder)
        rect == IF onElement THEN ElementRect(w, e) ELSE PlaceholderRect(w, e, placeholder)
        parentStyle == ParentRect(w, e)
    IN  IF elementStyle.top # Auto
        THEN [start |-> Minus(rect.top, parseFloat(elementStyle.top)),
              end |-> Minus(parentStyle.bottom, OrZero(parseFloat(stickyMargins.marginBottom)))]
        ELSE [start |-> Plus(rect.bottom, parseFloat(elementStyle.bottom)),
              end |-> Plus(parentStyle.top, OrZero(parseFloat(stickyMargins.marginTop)))]

\* `node` is the element itself or its placeholder
calculateBoundaries(w, e, node, stickyMargins) ==
    LET onElement == node = ElNode(e)
        placeholder == Data(w, e).placeholder
        elementStyle == IF onElement THEN ComputedStyle(w, e)
                        ELSE PlaceholderComputedStyle(placeholder)
        rect == IF onElement THEN ElementRect(w, e) ELSE PlaceholderRect(w, e, placeholder)
        parentStyle == ParentRect(w, e)
        start == IF elementStyle.top # Auto
                 THEN Minus(rect.top, parseFloat(elementStyle.top))
                 ELSE Plus(rect.bottom, parseFloat(elementStyle.bottom))
        end == IF elementStyle.top # Auto
               THEN Minus(parentStyle.bottom, OrZero(parseFloat(stickyMargins.marginBottom)))
               ELSE Plus(parentStyle.top, OrZero(parseFloat(stickyMargins.marginTop)))
    IN  [start |-> Plus(start, Num(w.pageYOffset)), end |-> Plus(end, Num(w.pageYOffset))]

updatePlaceholderStyle(w, sticky) ==
    LET e == sticky.element
        startPosition == ElementRect(w, e)
        data == Data(w, e)
    IN  [w EXCEPT !.expando[e][namespace].placeholder.style =
            copyStyleProperties(
                copyStyleProperties(data.placeholder.style, ComputedStyle(w, e),
                    <<"top", "bottom", "marginTop", "marginBottom", "marginLeft", "marginRight">>),
                convertNumbersToPixels(startPosition),
                <<"width", "height", "left">>)]

\* The closure onScroll returns: the sticky it was built for, the margins and
\* the distance captured at construction, and which of stickToTop and
\* stickToBottom it is.  r is what getStickyMargins returned.
onScrollClosure(r, sticky) ==
    LET e == sticky.element
        elementStyle == ComputedStyle(r.w, e)
        distanceFromSide == IF elementStyle.top # Auto
                            THEN parseFloat(elementStyle.top)
                            ELSE parseFloat(elementStyle.bottom)
        id == Fresh(HandlerIds(r.w))
    IN  [w |-> [r.w EXCEPT !.live = @ \cup {id}],
         ret |-> [kind |-> "scroll", id |-> id, sticky |-> sticky,
                  stickyMargins |-> r.ret, distanceFromSide |-> distanceFromSide,
                  side |-> IF elementStyle.top # Auto THEN "top" ELSE "bottom"]]

onScroll(w, sticky) == onScrollClosure(getStickyMargins(w, sticky), sticky)

\* startSticky putting the active class on before it dispatches stickystart
startStickyClassFirst(w, sticky) ==
    LET e == sticky.element
        data == [Data(w, e) EXCEPT !.position = w.style[e].position]
    IN  fireEvent([w EXCEPT
                      !.expando[e] = setData(namespace, @, data),
                      !.style[e] = copyStyleProperties(
                                       copyStyleProperties(@, [position |-> Kw("fixed")],
                                                           <<"position">>),
                                       data.placeholder.style, properties),
                      !.children[e] = insertBefore(@, PhNode(data.placeholder.id), ElNode(e)),
                      !.classList[e] = @ \cup {sticky.settings.activeClass}],
                  "stickystart", e)

\* startSticky from data.position on; w has the placeholder's style updated
startStickyFixed(w, sticky) ==
    LET e == sticky.element
        data == [Data(w, e) EXCEPT !.position = w.style[e].position]
    IN  [fireEvent([w EXCEPT
                       !.expando[e] = setData(namespace, @, data),
                       !.style[e] = copyStyleProperties(
                                        copyStyleProperties(@, [position |-> Kw("fixed")],
                                                            <<"position">>),
                                        data.placeholder.style, properties),
                       !.children[e] = insertBefore(@, PhNode(data.placeholder.id), ElNode(e))],
                   "stickystart", e)
            EXCEPT !.classList[e] = @ \cup {sticky.settings.activeClass}]

\* startSticky making the element fixed before it measures it
startStickyFixedFirst(w, sticky) ==
    LET e == sticky.element
        data == [Data(w, e) EXCEPT !.position = w.style[e].position]
        w1 == [w EXCEPT !.expando[e] = setData(namespace, @, data),
                        !.style[e] = copyStyleProperties(@, [position |-> Kw("fixed")],
                                                         <<"position">>)]
        w2 == updatePlaceholderStyle(w1, sticky)
        placeholder == Data(w2, e).placeholder
    IN  [fireEvent([w2 EXCEPT
                       !.style[e] = copyStyleProperties(@, placeholder.style, properties),
                       !.children[e] = insertBefore(@, PhNode(placeholder.id), ElNode(e))],
                   "stickystart", e)
            EXCEPT !.classList[e] = @ \cup {sticky.settings.activeClass}]

startSticky(w, sticky) == startStickyFixed(updatePlaceholderStyle(w, sticky), sticky)

\* endSticky dispatching no event
endStickySilent(w, sticky) ==
    IF w.error # NoError THEN w
    ELSE [w EXCEPT !.classList[sticky.element] = @ \ {sticky.settings.activeClass}]

\* endSticky after its call of cleanUp
endStickyCleaned(w, sticky) ==
    IF w.error # NoError THEN w
    ELSE [fireEvent(w, "stickyend", sticky.element)
             EXCEPT !.classList[sticky.element] = @ \ {sticky.settings.activeClass}]

endSticky(w, sticky) == endStickyCleaned(cleanUp(w, sticky), sticky)

\* getBoundaries measuring the element whether it is sticking or not
getBoundariesOnElement(w, fn, isSticking) ==
    calculateBoundaries(w, fn.sticky.element, ElNode(fn.sticky.element), fn.stickyMargins)

getBoundaries(w, fn, isSticking) ==
    LET e == fn.sticky.element
        placeholder == Data(w, e).placeholder
    IN  IF isSticking
        THEN calculateBoundaries(w, e, PhNode(placeholder.id), fn.stickyMargins)
        ELSE calculateBoundaries(w, e, ElNode(e), fn.stickyMargins)

\* what the handler measured, kept for the record
Measure(w, e, boundaries, isAdded) ==
    [w EXCEPT !.measured[e] = [start |-> boundaries.start, end |-> boundaries.end,
                               on |-> IF isAdded THEN "placeholder" ELSE "element"]]

\* the range test of stickToTop with the end of the range left out
isInRangeTopExclusive(y, boundaries) ==
    Geq(Num(y), boundaries.start) /\ Leq(Num(y + 1), boundaries.end)

\* the range test of stickToTop
isInRangeTop(y, boundaries) ==
    Geq(Num(y), boundaries.start) /\ Leq(Num(y), boundaries.end)

\* stickToTop comparing the gap alone, not the gap less the declared top
stickToTopInGapOnly(w, fn, isAdded, boundaries) ==
    LET sticky == fn.sticky
        e == sticky.element
        height == OrZero(parseFloat(ComputedStyle(w, e).height))
        gap == Minus(Minus(boundaries.end, height), Num(w.pageYOffset))
    IN  IF isInRangeTop(w.pageYOffset, boundaries)
        THEN [(IF ~isAdded THEN startSticky(w, sticky) ELSE w) EXCEPT !.style[e] =
                 StyleSet(@, "top", IF Geq(gap, Num(0)) THEN Empty ELSE PxString(gap))]
        ELSE IF isAdded THEN endSticky(w, sticky)
        ELSE w

\* stickToTop once the boundaries are known
stickToTopIn(w, fn, isAdded, boundaries) ==
    LET sticky == fn.sticky
        e == sticky.element
        height == OrZero(parseFloat(ComputedStyle(w, e).height))
        gap == Minus(Minus(boundaries.end, height), Num(w.pageYOffset))
        isInRange == isInRangeTop(w.pageYOffset, boundaries)
    IN  IF isInRange
        THEN [(IF ~isAdded THEN startSticky(w, sticky) ELSE w) EXCEPT !.style[e] =
                 StyleSet(@, "top", IF Geq(Minus(gap, fn.distanceFromSide), Num(0))
                                    THEN Empty ELSE PxString(gap))]
        ELSE IF isAdded THEN endSticky(w, sticky)
        ELSE w

stickToTopMeasured(w, fn, isAdded, boundaries) ==
    stickToTopIn(Measure(w, fn.sticky.element, boundaries, isAdded), fn, isAdded, boundaries)

stickToTopAdded(w, fn, isAdded) ==
    stickToTopMeasured(w, fn, isAdded, getBoundaries(w, fn, isAdded))

stickToTop(w, fn) ==
    IF ~Truthy(Data(w, fn.sticky.element)) THEN Throw(w, "TypeError")
    ELSE stickToTopAdded(w, fn, HasParent(w, fn.sticky.element,
                                          Data(w, fn.sticky.element).placeholder))

\* the range test of stickToBottom with both ends of the range left out
isInRangeBottomExclusive(windowBottom, boundaries) ==
    /\ Leq(Plus(windowBottom, Num(1)), boundaries.start)
    /\ Geq(Minus(windowBottom, Num(1)), boundaries.end)

\* the range test of stickToBottom
isInRangeBottom(windowBottom, boundaries) ==
    Leq(windowBottom, boundaries.start) /\ Geq(windowBottom, boundaries.end)

\* stickToBottom once the boundaries are known
stickToBottomIn(w, fn, isAdded, boundaries) ==
    LET sticky == fn.sticky
        e == sticky.element
        height == OrZero(parseFloat(ComputedStyle(w, e).height))
        windowBottom == Num(w.pageYOffset + w.innerHeight)
        gap == Minus(Plus(boundaries.end, height), windowBottom)
        isInRange == isInRangeBottom(windowBottom, boundaries)
    IN  IF isInRange
        THEN [(IF ~isAdded THEN startSticky(w, sticky) ELSE w) EXCEPT !.style[e] =
                 StyleSet(@, "bottom", IF Leq(Plus(gap, fn.distanceFromSide), Num(0))
                                       THEN Empty ELSE PxString(Neg(gap)))]
        ELSE IF isAdded THEN endSticky(w, sticky)
        ELSE w

stickToBottomMeasured(w, fn, isAdded, boundaries) ==
    stickToBottomIn(Measure(w, fn.sticky.element, boundaries, isAdded), fn, isAdded, boundaries)

stickToBottomAdded(w, fn, isAdded) ==
    stickToBottomMeasured(w, fn, isAdded, getBoundaries(w, fn, isAdded))

stickToBottom(w, fn) ==
    IF ~Truthy(Data(w, fn.sticky.element)) THEN Throw(w, "TypeError")
    ELSE stickToBottomAdded(w, fn, HasParent(w, fn.sticky.element,
                                             Data(w, fn.sticky.element).placeholder))

\* the function onScroll returned being stickToTop whatever the computed top
scrollHandlerTopOnly(w, fn) == stickToTop(w, fn)

\* a call of the function onScroll returned
scrollHandler(w, fn) ==
    IF fn.side = "top" THEN stickToTop(w, fn) ELSE stickToBottom(w, fn)

\* the stored scroll handler left uncalled
skipStoredScroll(w, e) == w

\* store.getData(element, 'handlers').scroll()
callStoredScroll(w, e) ==
    scrollHandler(w, getData(namespace, w.expando[e], "handlers").scroll)

\* The closure onResize returns.
onResize(w, sticky) ==
    LET id == Fresh(HandlerIds(w))
    IN  [w |-> [w EXCEPT !.live = @ \cup {id}],
         ret |-> [kind |-> "resize", id |-> id, sticky |-> sticky]]

\* capture flag of the scroll listener: the options object {passive: true} or
\* false, neither of which asks for capture
scrollCapture == FALSE

bindEvents(w, sticky) ==
    LET handlers == getData(namespace, w.expando[sticky.element], "handlers")
    IN  addEventListener(
            addEventListener(
                addEventListener(w, "load", handlers.scroll, FALSE),
                "scroll", handlers.scroll, scrollCapture),
            "resize", handlers.resize, FALSE)

\* unbindEvents leaving the resize listener registered
unbindEventsKeepsResize(w, sticky) ==
    LET handlers == getData(namespace, w.expando[sticky.element], "handlers")
    IN  removeEventListener(
            removeEventListener(w, "load", handlers.scroll, FALSE),
            "scroll", handlers.scroll, scrollCapture)

unbindEvents(w, sticky) ==
    LET handlers == getData(namespace, w.expando[sticky.element], "handlers")
    IN  removeEventListener(
            removeEventListener(
                removeEventListener(w, "load", handlers.scroll, FALSE),
                "scroll", handlers.scroll, scrollCapture),
            "resize", handlers.resize, FALSE)

\* the guard of init looking under another namespace
WrongNamespaceGuard(w, e) == Truthy(getData("other", w.expando[e], NoProperty))

\* the guard of init: the element already carries the library's data
isInitialized(w, e) == Truthy(getData(namespace, w.expando[e], NoProperty))

\* init, store.setData(...): rs is what onScroll returned
initStore(rs, sticky, placeholder) ==
    LET e == sticky.element
        rr == onResize(rs.w, sticky)
        data == [placeholder |-> placeholder,
                 handlers |-> [scroll |-> rs.ret, resize |-> rr.ret],
                 position |-> rs.w.style[e].position]
    IN  [rs.w EXCEPT !.expando[e] = setData(namespace, @, data)]

\* init, Style.copyStyleProperties(placeholder.style, {visibility, zIndex}):
\* rz is what getZIndex returned
initPlaceholder(rz, sticky) ==
    [rz.w EXCEPT !.expando[sticky.element][namespace].placeholder.style =
        copyStyleProperties(@, [visibility |-> Kw("hidden"), zIndex |-> NumString(rz.ret)],
                            <<"visibility", "zIndex">>)]

\* Sticky.prototype.init
init(w, sticky) ==
    IF isInitialized(w, sticky.element)
    THEN Throw(w, "This element has already been initialized")
    ELSE callStoredScroll(
             bindEvents(
                 updatePlaceholderStyle(
                     initPlaceholder(
                         getZIndex(initStore(onScroll(w, sticky), sticky, createElement(w)),
                                   sticky.element, sticky.settings.selector),
                         sticky),
                     sticky),
                 sticky),
             sticky.element)

\* destroy after its call of cleanUp
destroyCleaned(w, sticky) ==
    IF w.error # NoError THEN w
    ELSE [unbindEvents(w, sticky) EXCEPT !.expando[sticky.element] = removeData(namespace, @)]

\* Sticky.prototype.destroy
destroy(w, sticky) == destroyCleaned(cleanUp(w, sticky), sticky)

\* Sticky.autoInit passing over the elements that are initialized already
RECURSIVE autoInitEachSkipping(_, _, _)
autoInitEachSkipping(w, elements, opts) ==
    IF elements = <<>> \/ w.error # NoError THEN w
    ELSE IF isInitialized(w, Head(elements))
    THEN autoInitEachSkipping(w, Tail(elements), opts)
    ELSE autoInitEachSkipping(init(w, Sticky(Head(elements), opts)), Tail(elements), opts)

\* Sticky.autoInit, the forEach over the matched elements: an exception ends it
RECURSIVE autoInitEach(_, _, _)
autoInitEach(w, elements, opts) ==
    IF elements = <<>> \/ w.error # NoError THEN w
    ELSE autoInitEach(init(w, Sticky(Head(elements), opts)), Tail(elements), opts)

\* Sticky.autoInit initializing the first matched element only
autoInitFirst(w, opts) ==
    LET merged == Assign(defaults, opts)
        matched == querySelectorAll(merged.selector)
    IN  autoInitEach(w, IF matched = <<>> THEN <<>> ELSE <<Head(matched)>>, merged)

\* Sticky.autoInit
autoInit(w, opts) ==
    autoInitEach(w, querySelectorAll(Assign(defaults, opts).selector), Assign(defaults, opts))

\* the function onResize returned, after sticky.init()
resizeReplay(w, sticky) ==
    IF w.error # NoError THEN w ELSE callStoredScroll(w, sticky.element)

\* the function onResize returned, after sticky.destroy()
resizeInit(w, sticky) ==
    IF w.error # NoError THEN w ELSE resizeReplay(init(w, sticky), sticky)

\* the function onResize returned, without its call of sticky.destroy()
resizeHandlerNoDestroy(w, fn) ==
    [resizeInit([w EXCEPT !.live = @ \cup {fn.id}], fn.sticky)
        EXCEPT !.live = @ \ {fn.id}]

\* a call of the function onResize returned; the function is on the call stack
\* while it runs
resizeHandler(w, fn) ==
    [resizeInit(destroy([w EXCEPT !.live = @ \cup {fn.id}], fn.sticky), fn.sticky)
        EXCEPT !.live = @ \ {fn.id}]

\* ------------------------------------------------------------ event dispatch
\* a call of a registered callback
Call(w, fn) ==
    IF fn.kind = "scroll" THEN scrollHandler(w, fn) ELSE resizeHandler(w, fn)

\* an exception a callback throws is reported; the first one is kept
Reported(w, earlier) ==
    IF earlier # NoError THEN [w EXCEPT !.error = earlier] ELSE w

\* The listeners of the type are called in registration order; one removed
\* meanwhile is skipped, one added meanwhile is not called, and an exception
\* does not stop the dispatch.
CallListener(w, l) ==
    IF IndexOf(w.listeners, l) = 0 THEN w
    ELSE Reported(Call([w EXCEPT !.error = NoError], l.fn), w.error)

RECURSIVE DispatchAll(_, _)
DispatchAll(w, snapshot) ==
    IF snapshot = <<>> THEN w
    ELSE DispatchAll(CallListener(w, Head(snapshot)), Tail(snapshot))

Dispatch(w, type) ==
    DispatchAll(w, SelectSeq(w.listeners, LAMBDA l : l.type = type))

\* ------------------------------------------------------------------- pages
\* What the stylesheet declares for an element: its offsets, its margins with
\* and without the active class, its z-index, and the selectors it matches.
SheetTop0 ==
    [top |-> Px(0), bottom |-> Auto, marginTop |-> Px(0), marginBottom |-> Px(0),
     activeMarginTop |-> Px(0), activeMarginBottom |-> Px(1), zIndex |-> Auto,
     matches |-> {".sticky"}]
SheetTop1 ==
    [top |-> Px(1), bottom |-> Auto, marginTop |-> Px(0), marginBottom |-> Px(0),
     activeMarginTop |-> Px(0), activeMarginBottom |-> Auto, zIndex |-> IntStr(5),
     matches |-> {".sticky"}]
SheetBottom0 ==
    [top |-> Auto, bottom |-> Px(0), marginTop |-> Px(0), marginBottom |-> Px(0),
     activeMarginTop |-> Px(1), activeMarginBottom |-> Px(0), zIndex |-> Auto,
     matches |-> {".sticky"}]
SheetNone ==
    [top |-> Auto, bottom |-> Auto, marginTop |-> Px(0), marginBottom |-> Px(0),
     activeMarginTop |-> Auto, activeMarginBottom |-> Px(0), zIndex |-> Auto,
     matches |-> {".sticky"}]
\* a sticking element pushed down by a margin larger than its own extent
SheetBottomWide ==
    [top |-> Auto, bottom |-> Px(0), marginTop |-> Px(0), marginBottom |-> Px(0),
     activeMarginTop |-> Px(3), activeMarginBottom |-> Px(0), zIndex |-> Auto,
     matches |-> {".sticky"}]
\* the rule for the active class is written for the class the options name
WithRule(sh, opts) ==
    [k \in (DOMAIN sh) \cup {"activeRule"} |->
        IF k = "activeRule" THEN Assign(defaults, opts).activeClass ELSE sh[k]]

DefaultOptions == [selector |-> ".sticky"]
StuckOptions == [activeClass |-> "stuck"]
NamedOptions == [activeClassName |-> "named"]

\* element.style as the page's markup leaves it; left has no effect on the box
\* of an element whose position is static
PlainStyle == EmptyStyle
StyledInline ==
    [EmptyStyle EXCEPT !.position = Kw("static"), !.left = Px(3),
                       !.visibility = Kw("visible")]

\* the elements a page may hold: stylesheet, options, inline style
ElementKinds ==
    {[sheet |-> SheetTop0, options |-> DefaultOptions, style |-> PlainStyle],
     [sheet |-> SheetTop0, options |-> StuckOptions, style |-> StyledInline],
     [sheet |-> SheetTop1, options |-> DefaultOptions, style |-> StyledInline],
     [sheet |-> SheetBottom0, options |-> DefaultOptions, style |-> PlainStyle],
     [sheet |-> SheetNone, options |-> StuckOptions, style |-> PlainStyle],
     [sheet |-> SheetTop0, options |-> NamedOptions, style |-> PlainStyle],
     [sheet |-> SheetBottomWide, options |-> DefaultOptions, style |-> PlainStyle]}

\* the geometry of an element's parent and of its in-flow box, in px, the
\* parent's top in document coordinates and the element's offset from it;
\* width is that of its box in the flow and fixedWidth that of its box when it
\* is fixed and has no inline width;
\* heightAuto: the element is laid out as an inline box, whose computed height
\* is auto
LayoutA == [parentTop |-> 2, parentHeight |-> 3, offset |-> 1, height |-> 1,
            left |-> 0, width |-> 5, fixedWidth |-> 2, heightAuto |-> FALSE]
LayoutB == [parentTop |-> 1, parentHeight |-> 3, offset |-> 0, height |-> 2,
            left |-> 1, width |-> 4, fixedWidth |-> 3, heightAuto |-> TRUE]

\* the two sizes of the window the page is laid out for
Viewports == {[innerHeight |-> 2, layout |-> LayoutA],
              [innerHeight |-> 3, layout |-> LayoutB]}

\* a stylesheet for an element that carries a second class
SheetPinned ==
    [top |-> Px(1), bottom |-> Auto, marginTop |-> Px(0), marginBottom |-> Px(0),
     activeMarginTop |-> Px(0), activeMarginBottom |-> Px(0), zIndex |-> Auto,
     matches |-> {".sticky", ".pinned"}]

PinnedOptions == [selector |-> ".pinned"]

\* the pages with two sticky candidates
TwoElementPages ==
    {<<[sheet |-> SheetTop0, options |-> StuckOptions, style |-> PlainStyle],
       [sheet |-> SheetPinned, options |-> PinnedOptions, style |-> PlainStyle]>>}

\* the options a script may pass to Sticky.autoInit
AutoInitOptions == {StuckOptions, PinnedOptions}

\* the offsets the window is scrolled to on the pages with two candidates
TwoElementOffsets == {0, 2, 3}

\* the size of the window on the pages with two candidates
TwoElementViewports == {[innerHeight |-> 2, layout |-> LayoutA]}

\* A page with one element of height 50px, 200px below the top of a parent of
\* height 1000px, the parent at one of three places of the document.
SheetScenario ==
    [top |-> Px(0), bottom |-> Auto, marginTop |-> Px(0), marginBottom |-> Px(0),
     activeMarginTop |-> Px(0), activeMarginBottom |-> Px(0), zIndex |-> Auto,
     matches |-> {".sticky"}]

ScenarioPages ==
    {<<[sheet |-> SheetScenario, options |-> DefaultOptions, style |-> PlainStyle]>>}

ScenarioViewports ==
    {[innerHeight |-> 600,
      layout |-> [parentTop |-> p, parentHeight |-> 1000, offset |-> 200, height |-> 50,
                  left |-> 20, width |-> 300, fixedWidth |-> 120,
                  heightAuto |-> FALSE]] : p \in {0, 100, 400}}

ScenarioOffsets == {0, 150, 200, 300, 600, 1000, 1100, 1400, 1500}

\* -------------------------------------------------------------------- Init
\* the page as loaded, before any script ran; pages is the set of the pages to
\* start from, each a function from its elements to their kinds, and
\* viewports the sizes of the window it may be laid out for
InitPagesIn(pages, viewports) ==
    \E kind \in pages, v \in viewports :
        /\ doc = DOMAIN kind
        /\ options = [e \in AllElements |-> IF e \in DOMAIN kind THEN kind[e].options
                                             ELSE DefaultOptions]
        /\ sheet = [e \in AllElements |->
                      IF e \in DOMAIN kind THEN WithRule(kind[e].sheet, kind[e].options)
                      ELSE WithRule(SheetNone, DefaultOptions)]
        /\ style = [e \in AllElements |-> IF e \in DOMAIN kind THEN kind[e].style
                                           ELSE EmptyStyle]
        /\ layout = [e \in AllElements |-> v.layout]
        /\ pageYOffset = 0
        /\ innerHeight = v.innerHeight
        /\ classList = [e \in AllElements |-> {}]
        /\ expando = [e \in AllElements |-> [ns \in Namespaces |-> Undefined]]
        /\ children = [e \in AllElements |-> <<ElNode(e)>>]
        /\ listeners = <<>>
        /\ fired = [e \in AllElements |-> <<>>]
        /\ seen = [e \in AllElements |-> <<>>]
        /\ lastEvent = [e \in AllElements |-> NoEvent]
        /\ measured = [e \in AllElements |-> NoBoundaries]
        /\ preInit = [e \in AllElements |-> EmptyStyle]
        /\ op = [name |-> "load page", element |-> 0, error |-> NoError]

InitPages(pages) == InitPagesIn(pages, TwoElementViewports)

InitPage(elements) ==
    /\ doc = elements
    /\ \E kind \in [elements -> ElementKinds] :
          /\ options = [e \in AllElements |-> IF e \in elements THEN kind[e].options
                                             ELSE DefaultOptions]
          /\ sheet = [e \in AllElements |->
                        IF e \in elements THEN WithRule(kind[e].sheet, kind[e].options)
                        ELSE WithRule(SheetNone, DefaultOptions)]
          /\ style = [e \in AllElements |-> IF e \in elements THEN kind[e].style
                                           ELSE EmptyStyle]
    /\ layout = [e \in AllElements |-> LayoutA]
    /\ pageYOffset = 0
    /\ innerHeight = 2
    /\ classList = [e \in AllElements |-> {}]
    /\ expando = [e \in AllElements |-> [ns \in Namespaces |-> Undefined]]
    /\ children = [e \in AllElements |-> <<ElNode(e)>>]
    /\ listeners = <<>>
    /\ fired = [e \in AllElements |-> <<>>]
    /\ seen = [e \in AllElements |-> <<>>]
    /\ lastEvent = [e \in AllElements |-> NoEvent]
    /\ measured = [e \in AllElements |-> NoBoundaries]
    /\ preInit = [e \in AllElements |-> EmptyStyle]
    /\ op = [name |-> "load page", element |-> 0, error |-> NoError]

Init == InitPage({1})

\* ----------------------------------------------------------------- actions
\* the page after an operation that left the world w
Commit(w, name, e) ==
    /\ layout' = w.layout
    /\ pageYOffset' = w.pageYOffset
    /\ innerHeight' = w.innerHeight
    /\ style' = w.style
    /\ classList' = w.classList
    /\ expando' = w.expando
    /\ children' = w.children
    /\ listeners' = w.listeners
    /\ fired' = w.fired
    /\ seen' = w.seen
    /\ lastEvent' = [x \in AllElements |->
                        IF fired[x] # <<>> THEN fired[x][Len(fired[x])] ELSE lastEvent[x]]
    /\ measured' = w.measured
    /\ op' = [name |-> name, element |-> e, error |-> w.error]
    /\ preInit' = [x \in AllElements |->
                      IF /\ name \in {"init", "autoInit"}
                         /\ ~Truthy(expando[x][namespace])
                         /\ Truthy(w.expando[x][namespace])
                      THEN style[x] ELSE preInit[x]]
    /\ UNCHANGED <<doc, sheet, options>>

\* a script calls new Sticky(e, options).init()
InitCall(e) == Commit(init(World, Sticky(e, options[e])), "init", e)

\* a script calls destroy() on a Sticky object built on e
DestroyCall(e) == Commit(destroy(World, Sticky(e, options[e])), "destroy", e)

\* the window is scrolled to offset y and the scroll event is dispatched
Scroll(y) ==
    /\ y # pageYOffset
    /\ Commit(Dispatch([World EXCEPT !.pageYOffset = y], "scroll"), "scroll", 0)

\* the load event is dispatched
Load == Commit(Dispatch(World, "load"), "load", 0)

\* the window is resized: the layout is redone and the resize event dispatched
Resize(v) ==
    /\ Commit(Dispatch([World EXCEPT
                            !.layout = [e \in AllElements |-> IF e \in doc THEN v.layout
                                                              ELSE layout[e]],
                            !.innerHeight = v.innerHeight], "resize"),
              "resize", 0)

Next ==
    \/ \E e \in doc : InitCall(e)
    \/ \E e \in doc : DestroyCall(e)
    \/ \E y \in 0..MaxScroll : Scroll(y)
    \/ Load
    \/ \E v \in Viewports : Resize(v)

Spec == Init /\ [][Next]_vars

\* a script calls Sticky.autoInit(options)
AutoInit(o) == Commit(autoInit(World, o), "autoInit", 0)

\* Pages with two sticky candidates, each in a parent of its own.
InitTwo == InitPages(TwoElementPages)

NextTwo ==
    \/ \E e \in doc : InitCall(e)
    \/ \E e \in doc : DestroyCall(e)
    \/ \E o \in AutoInitOptions : AutoInit(o)
    \/ \E y \in TwoElementOffsets : Scroll(y)
    \/ Load
    \/ \E v \in TwoElementViewports : Resize(v)

SpecTwo == InitTwo /\ [][NextTwo]_vars

\* The page of the scenario: one element, the parent at one of three places.
InitScenario == InitPagesIn(ScenarioPages, ScenarioViewports)

NextScenario ==
    \/ \E e \in doc : InitCall(e)
    \/ \E e \in doc : DestroyCall(e)
    \/ \E y \in ScenarioOffsets : Scroll(y)
    \/ Load
    \/ \E v \in ScenarioViewports : Resize(v)

SpecScenario == InitScenario /\ [][NextScenario]_vars

\* Pages for the stacking order: two elements, the first with a z-index of
\* its own (0 or 5) or without one, matched or not by the selector it is
\* configured with, with or without an inline position; the second matched by
\* both selectors.
SheetStacked0 == [SheetTop0 EXCEPT !.zIndex = IntStr(0)]

StackingKinds ==
    {[sheet |-> SheetStacked0, options |-> DefaultOptions, style |-> StyledInline],
     [sheet |-> SheetTop1, options |-> DefaultOptions, style |-> StyledInline],
     [sheet |-> SheetTop0, options |-> PinnedOptions, style |-> PlainStyle],
     [sheet |-> SheetTop0, options |-> DefaultOptions, style |-> PlainStyle]}

StackingPages ==
    {<<k, [sheet |-> SheetPinned, options |-> PinnedOptions, style |-> PlainStyle]>> :
        k \in StackingKinds}

StackingOffsets == {0, 3}

InitStacking == InitPages(StackingPages)

NextStacking ==
    \/ \E e \in doc : InitCall(e)
    \/ \E e \in doc : DestroyCall(e)
    \/ \E o \in AutoInitOptions : AutoInit(o)
    \/ \E y \in StackingOffsets : Scroll(y)

SpecStacking == InitStacking /\ [][NextStacking]_vars

\* The store on its own: two objects, the two namespaces, the values a caller
\* may store (an object with one or two properties, one of them named by
\* the empty string, the number 0, undefined) and the properties it may ask for.
StoreObjects == AllElements

StoredBags ==
    {[placeholder |-> [number |-> 1]],
     [placeholder |-> [number |-> 2], handlers |-> [number |-> 1]],
     [property \in {"", "handlers"} |-> [number |-> 3]]}

StoredValues == StoredBags \cup {Zero, Undefined}

StoreProperties == {"placeholder", "handlers", ""}

InitStore == InitPages(TwoElementPages)

\* a script calls new Store(ns).setData(object, value)
SetData(ns, object, value) ==
    /\ expando' = [expando EXCEPT ![object] = setData(ns, @, value)]
    /\ op' = [name |-> "setData", element |-> object, error |-> NoError,
              namespace |-> ns, value |-> value]
    /\ UNCHANGED <<doc, sheet, options, layout, pageYOffset, innerHeight, style, classList,
                   children, listeners, fired, seen, lastEvent, measured, preInit>>

\* a script calls new Store(ns).removeData(object)
RemoveData(ns, object) ==
    /\ expando' = [expando EXCEPT ![object] = removeData(ns, @)]
    /\ op' = [name |-> "removeData", element |-> object, error |-> NoError,
              namespace |-> ns, value |-> Undefined]
    /\ UNCHANGED <<doc, sheet, options, layout, pageYOffset, innerHeight, style, classList,
                   children, listeners, fired, seen, lastEvent, measured, preInit>>

NextStore ==
    \/ \E ns \in Namespaces, object \in StoreObjects, value \in StoredValues :
          SetData(ns, object, value)
    \/ \E ns \in Namespaces, object \in StoreObjects : RemoveData(ns, object)

SpecStore == InitStore /\ [][NextStore]_vars

\* ------------------------------------------------------------ observations
AlreadyInitialized == "This element has already been initialized"

Initialized(e) == Truthy(expando[e][namespace])

\* the placeholders among the children of e's parent
AttachedPlaceholders(e) ==
    {children[e][i].id : i \in {j \in 1..Len(children[e]) :
                                   children[e][j].kind = "placeholder"}}

\* the placeholder of e's data bag is in the document
Attached(e) ==
    /\ Initialized(e)
    /\ expando[e][namespace].placeholder.id \in AttachedPlaceholders(e)

\* the listeners of the window that were built for e
ListenersOf(e) ==
    {listeners[i] : i \in {j \in 1..Len(listeners) : listeners[j].fn.sticky.element = e}}

\* C1: init() on an element that already has an instance throws and changes
\* nothing: data bag, listeners, inline style, class list and document stay
\* as they were.
C1_DoubleInitChangesNothing ==
    [][\A e \in doc :
          (op'.name = "init" /\ op'.element = e /\ Initialized(e)) =>
             /\ op'.error = AlreadyInitialized
             /\ expando' = expando
             /\ listeners' = listeners
             /\ style' = style
             /\ classList' = classList
             /\ children' = children]_vars

C1_Witness ==
    /\ op.name = "init"
    /\ op.error = AlreadyInitialized
    /\ Initialized(op.element)
    /\ ListenersOf(op.element) # {}

\* The range an element sticks in, from the page alone: the in-flow box of the
\* element, its parent, the offset the stylesheet declares, the margin the
\* stylesheet gives the sticking element.
SticksToTop(e) == sheet[e].top # Auto
SticksToBottom(e) == sheet[e].top = Auto /\ sheet[e].bottom # Auto

TopStart(e) == layout[e].parentTop + layout[e].offset - sheet[e].top[2]
TopEnd(e) == layout[e].parentTop + layout[e].parentHeight - sheet[e].activeMarginBottom[2]
BottomStart(e) == layout[e].parentTop + layout[e].offset + layout[e].height + sheet[e].bottom[2]
BottomEnd(e) == layout[e].parentTop + sheet[e].activeMarginTop[2]

\* the scroll offset y is in the range of e
InRange(e, y) ==
    \/ SticksToTop(e) /\ TopStart(e) <= y /\ y <= TopEnd(e)
    \/ SticksToBottom(e) /\ BottomEnd(e) <= y + innerHeight /\ y + innerHeight <= BottomStart(e)

\* the placeholder of e's data bag is the sibling right before e
PlaceholderBeforeElement(e) ==
    /\ Attached(e)
    /\ IndexOf(children[e], PhNode(expando[e][namespace].placeholder.id)) + 1
          = IndexOf(children[e], ElNode(e))

\* C2: for an initialized element with a declared top, whenever the scroll
\* offset is within [start, end] after the scroll handler has run, the element
\* is sticking (position fixed) and its placeholder is attached as the sibling
\* immediately before it.
C2_TopInRangeSticks ==
    \A e \in doc :
        (Initialized(e) /\ SticksToTop(e) /\ InRange(e, pageYOffset)) =>
            /\ style[e].position = Kw("fixed")
            /\ PlaceholderBeforeElement(e)

C2_Witness ==
    /\ op.name = "scroll"
    /\ Initialized(1) /\ SticksToTop(1) /\ InRange(1, pageYOffset)
    /\ PlaceholderBeforeElement(1)
    /\ pageYOffset = TopEnd(1)

\* C3: a scroll tick from inside the range to outside fires exactly one
\* stickyend and detaches the placeholder, a tick from outside to inside fires
\* exactly one stickystart, and a tick that stays on one side fires nothing.
C3_OneEventPerCrossing ==
    [][\A e \in doc :
          (op'.name = "scroll" /\ Initialized(e)) =>
             /\ (InRange(e, pageYOffset) /\ ~InRange(e, pageYOffset'))
                    => (fired'[e] = <<"stickyend">> /\ AttachedPlaceholders(e)' = {})
             /\ (~InRange(e, pageYOffset) /\ InRange(e, pageYOffset'))
                    => fired'[e] = <<"stickystart">>
             /\ (InRange(e, pageYOffset) <=> InRange(e, pageYOffset'))
                    => fired'[e] = <<>>]_vars

C3_Witness ==
    /\ op.name = "scroll"
    /\ Initialized(1) /\ ~InRange(1, pageYOffset)
    /\ lastEvent[1] = "stickystart"
    /\ fired[1] = <<"stickyend">>
    /\ AttachedPlaceholders(1) = {}

\* C4: between handler executions the placeholder is in the document if and
\* only if the instance is sticking, that is if and only if the element's
\* inline position is the 'fixed' the library set.
C4_PlaceholderIffSticking ==
    \A e \in doc :
        /\ (AttachedPlaceholders(e) # {}) <=> Attached(e)
        /\ Attached(e) <=> (style[e].position = Kw("fixed"))

C4_Witness ==
    /\ op.name = "destroy" /\ op.error = NoError
    /\ lastEvent[1] = "stickystart"
    /\ AttachedPlaceholders(1) = {}
    /\ style[1].position # Kw("fixed")

\* the properties of element.style the library writes
TouchedProperties ==
    {"position", "width", "height", "left", "marginLeft", "marginRight", "zIndex",
     "top", "bottom", "marginTop", "marginBottom"}

\* C5: after destroy() the inline position and the inline width, height, left,
\* marginLeft, marginRight, zIndex, top, bottom, marginTop and marginBottom
\* equal the values they had immediately before init(), also when some of
\* them were not empty before init().
C5_RoundTrip ==
    \A e \in doc :
        (op.name = "destroy" /\ op.element = e /\ op.error = NoError) =>
            \A p \in TouchedProperties : style[e][p] = preInit[e][p]

\* the listeners init() binds for the handlers held in e's data bag
BagListeners(e) ==
    LET handlers == expando[e][namespace].handlers
    IN  {[type |-> "load", fn |-> handlers.scroll, capture |-> FALSE],
         [type |-> "scroll", fn |-> handlers.scroll, capture |-> FALSE],
         [type |-> "resize", fn |-> handlers.resize, capture |-> FALSE]}

ListenersMatchBag(e) ==
    /\ ListenersOf(e) = IF Initialized(e) THEN BagListeners(e) ELSE {}
    /\ Cardinality({l \in ListenersOf(e) : l.type = "scroll"}) <= 1
    /\ Cardinality({l \in ListenersOf(e) : l.type = "resize"}) <= 1

DestroyedClean(e) ==
    (op.name = "destroy" /\ op.element = e /\ op.error = NoError) =>
        /\ AttachedPlaceholders(e) = {}
        /\ ListenersOf(e) = {}
        /\ \A ns \in Namespaces : expando[e][ns] = Undefined

\* C6: after destroy() the placeholder is out of the document, the handlers
\* init() bound are no longer registered and no data is left on the element,
\* so that a following init() succeeds; and at any time the listeners
\* registered for an element are exactly those of the handlers in its data
\* bag, at most one scroll handler and one resize handler.
C6_DestroyReleasesEverything ==
    /\ [](\A e \in doc : ListenersMatchBag(e) /\ DestroyedClean(e))
    /\ [][\A e \in doc :
             (~Initialized(e) /\ op'.name = "init" /\ op'.element = e) =>
                (op'.error = NoError /\ Initialized(e)')]_vars

C6_Witness ==
    /\ op.name = "init" /\ op.error = NoError
    /\ lastEvent[1] = "stickystart"
    /\ ListenersOf(1) = BagListeners(1)
    /\ Len(listeners) = 3

\* C7: init() runs the scroll handler once before it returns: right after a
\* successful init() the element is sticking (placeholder attached, position
\* fixed) if and only if the scroll offset is in its range.
C7_InitSticksAtOnce ==
    \A e \in doc :
        (op.name = "init" /\ op.element = e /\ op.error = NoError) =>
            /\ measured[e] # NoBoundaries
            /\ Attached(e) <=> InRange(e, pageYOffset)
            /\ (style[e].position = Kw("fixed")) <=> InRange(e, pageYOffset)

C7_Witness ==
    /\ op.name = "init" /\ op.error = NoError /\ op.element = 1
    /\ InRange(1, pageYOffset)
    /\ Attached(1)
    /\ fired[1] = <<"stickystart">>

\* A fresh instance: init() on the page as it is in the next state, with
\* nothing of the library on e (inline style as the markup gave it, but blank
\* in the properties the library writes other than position, no active class,
\* no data, no listener, no placeholder).
FreshInstance(e) ==
    init([World' EXCEPT
             !.style[e] = [p \in StyleProps |->
                              IF p \in TouchedProperties \ {"position"} THEN Empty
                              ELSE preInit[e][p]],
             !.classList[e] = {},
             !.expando[e] = [ns \in Namespaces |-> Undefined],
             !.children[e] = <<ElNode(e)>>,
             !.listeners = SelectSeq(@, LAMBDA l : l.fn.sticky.element # e)],
         Sticky(e, options[e]))

RefBoundaries(e) ==
    [start |-> IF SticksToTop(e) THEN Num(TopStart(e))
               ELSE IF SticksToBottom(e) THEN Num(BottomStart(e)) ELSE NaN,
     end |-> IF SticksToTop(e) THEN Num(TopEnd(e)) ELSE Num(BottomEnd(e)),
     on |-> "element"]

\* C9: with layout and scroll offset unchanged, destroy() followed by init()
\* on the same element (destroyed while sticking or not) computes the
\* boundaries a first init() on that element computes, and so takes the same
\* sticking decision.
C9_ReinitSameBoundaries ==
    [][\A e \in doc :
          (op'.name = "init" /\ op'.element = e /\ op'.error = NoError) =>
             /\ measured'[e] = RefBoundaries(e)'
             /\ Attached(e)' <=> InRange(e, pageYOffset)']_vars

C9_Witness ==
    /\ op.name = "init" /\ op.error = NoError /\ op.element = 1
    /\ lastEvent[1] = "stickystart"
    /\ fired[1] = <<"stickystart">>
    /\ measured[1] = RefBoundaries(1)

\* the events dispatched on an element, the last one of the earlier operations
\* followed by those of the last operation
RecentEvents(e) ==
    (IF lastEvent[e] = NoEvent THEN <<>> ELSE <<lastEvent[e]>>) \o fired[e]

\* C10: every attachment of the placeholder comes with one stickystart and
\* every detachment with one stickyend, so the events dispatched on an element
\* alternate, beginning with stickystart.
C10_EventsAlternate ==
    \A e \in doc :
        /\ \A i \in 1..(Len(RecentEvents(e)) - 1) : RecentEvents(e)[i] # RecentEvents(e)[i + 1]
        /\ (lastEvent[e] = NoEvent /\ fired[e] # <<>>) => fired[e][1] = "stickystart"
        /\ Attached(e) <=> (RecentEvents(e) # <<>> /\
                            RecentEvents(e)[Len(RecentEvents(e))] = "stickystart")

\* the class the options of e configure: the option activeClass when given,
\* 'sticky--active' otherwise
ConfiguredClass(e) ==
    IF "activeClass" \in DOMAIN options[e] THEN options[e].activeClass ELSE "sticky--active"

\* the class the options of e would configure were the option named activeClassName
ClassNameOption(e) ==
    IF "activeClassName" \in DOMAIN options[e] THEN options[e].activeClassName
    ELSE "sticky--active"

Matching(o) == {e \in doc : Assign(defaults, o).selector \in sheet[e].matches}

\* the controller autoInit(o) builds for e
Controller(e, o) == [element |-> e, settings |-> Assign(defaults, o)]

\* C12: Sticky.autoInit(options), called when no element matching
\* options.selector ('.sticky' when no selector is given) is initialized, ends
\* without error having built and initialized one controller, with the options
\* merged over the defaults, for each matching element: each has its data bag
\* and its three listeners, the elements that do not match are left as they
\* were, and on a page without any instance exactly the matching elements
\* have one afterwards.
C12_AutoInitEachMatch ==
    [][\A o \in AutoInitOptions :
          (op'.name = "autoInit" /\ AutoInit(o) /\ \A e \in Matching(o) : ~Initialized(e)) =>
             /\ op'.error = NoError
             /\ \A e \in Matching(o) :
                    /\ Initialized(e)'
                    /\ expando'[e][namespace].handlers.scroll.sticky = Controller(e, o)
                    /\ expando'[e][namespace].handlers.resize.sticky = Controller(e, o)
                    /\ ListenersOf(e)' = BagListeners(e)'
                    /\ Cardinality(ListenersOf(e)') = 3
             /\ \A e \in doc \ Matching(o) :
                    /\ expando'[e] = expando[e]
                    /\ ListenersOf(e)' = ListenersOf(e)
             /\ Len(listeners') = Len(listeners) + 3 * Cardinality(Matching(o))
             /\ (\A e \in doc : ~Initialized(e))
                    => {e \in doc : Initialized(e)'} = Matching(o)]_vars

C12_Witness ==
    /\ op.name = "autoInit" /\ op.error = NoError
    /\ Initialized(1) /\ Initialized(2)
    /\ expando[2][namespace].handlers.scroll.sticky = Controller(2, StuckOptions)
    /\ Len(listeners) = 6

\* the placeholder of e carries the width, height and left of e's in-flow box
PlaceholderHasBox(e) ==
    /\ expando[e][namespace].placeholder.style.width = Px(layout[e].width)
    /\ expando[e][namespace].placeholder.style.height = Px(layout[e].height)
    /\ expando[e][namespace].placeholder.style.left = Px(layout[e].left)

\* C13: for an initialized element with top: 0 and height 50px whose top edge
\* lies 200px below the top of a parent of height 1000px, the parent's top at
\* document offset P, the element is sticking exactly at the offsets from
\* P + 200 to P + 1000: there its position is fixed and the placeholder,
\* carrying the element's pre-stick width, height and left, is attached.  At
\* pageYOffset = 150 it is not sticking, wherever the parent sits.
C13_ScenarioRange ==
    \A e \in doc :
        Initialized(e) =>
            /\ Attached(e) <=> /\ layout[e].parentTop + 200 <= pageYOffset
                               /\ pageYOffset <= layout[e].parentTop + 1000
            /\ Attached(e) => (style[e].position = Kw("fixed") /\ PlaceholderHasBox(e))
            /\ ~Attached(e) => style[e].position # Kw("fixed")
            /\ pageYOffset = 150 => ~Attached(e)

C13_Witness ==
    /\ op.name = "scroll"
    /\ pageYOffset = 150
    /\ layout[1].parentTop = 0
    /\ Initialized(1) /\ ~Attached(1)
    /\ lastEvent[1] = "stickystart" /\ fired[1] = <<"stickyend">>
    /\ measured[1].start = Num(200) /\ measured[1].end = Num(1000)

\* C13 as stated: scrolled to pageYOffset = 150 the element is sticking, with
\* its position fixed and the placeholder carrying its box.
C13_SticksAt150 ==
    \A e \in doc :
        (Initialized(e) /\ op.name = "scroll" /\ pageYOffset = 150) =>
            /\ style[e].position = Kw("fixed")
            /\ Attached(e) /\ PlaceholderHasBox(e)

\* the listeners of the window that were built for x, in the world w
ListenersIn(w, x) ==
    {w.listeners[i] : i \in {j \in 1..Len(w.listeners) : w.listeners[j].fn.sticky.element = x}}

\* nothing of x differs between the worlds w0 and w1: data bag, listeners,
\* inline style, class list, the children of its parent
Untouched(w0, w1, x) ==
    /\ w1.expando[x] = w0.expando[x]
    /\ ListenersIn(w1, x) = ListenersIn(w0, x)
    /\ w1.style[x] = w0.style[x]
    /\ w1.classList[x] = w0.classList[x]
    /\ w1.children[x] = w0.children[x]

\* a run of the callback fn, registered for one element, at scroll offset y
\* leaves every other element untouched
HandlerKeepsOthers(fn, y) ==
    \A x \in doc \ {fn.sticky.element} :
        Untouched([World EXCEPT !.pageYOffset = y],
                  Call([World EXCEPT !.pageYOffset = y], fn), x)

\* C14: instances on different elements do not interfere: an init() or a
\* destroy() of one element, and a run of a scroll handler or of a resize
\* handler of one element in any state the page reaches and at any scroll
\* offset, leave the data bag, the listeners, the inline style, the class
\* list and the placeholder attachment of every other element unchanged.
C14_NoInterference ==
    /\ [](\A i \in 1..Len(listeners) : \A y \in TwoElementOffsets :
             HandlerKeepsOthers(listeners[i].fn, y))
    /\ [][\A e \in doc :
             (op'.name \in {"init", "destroy"} /\ op'.element = e) =>
                \A x \in doc \ {e} :
                    /\ expando'[x] = expando[x]
                    /\ ListenersOf(x)' = ListenersOf(x)
                    /\ style'[x] = style[x]
                    /\ classList'[x] = classList[x]
                    /\ children'[x] = children[x]]_vars

C14_Witness ==
    /\ op.name = "destroy" /\ op.element = 1 /\ op.error = NoError
    /\ lastEvent[1] = "stickystart"
    /\ Initialized(2) /\ Attached(2)
    /\ ListenersOf(2) = BagListeners(2)

\* the stylesheet declares neither top nor bottom for e
NoSide(e) == sheet[e].top = Auto /\ sheet[e].bottom = Auto

\* C15: the stick side is decided from the computed top: an element whose
\* computed top is not 'auto' is handled by stickToTop and sticks exactly in
\* the top range, any other element is handled by stickToBottom and sticks
\* exactly in the bottom range; an element whose top and bottom are both
\* 'auto' is handled by stickToBottom, its handlers raise no error, and it
\* is never sticking at any scroll offset.
C15_SideFromComputedTop ==
    \A e \in doc :
        Initialized(e) =>
            /\ expando[e][namespace].handlers.scroll.side
                  = IF sheet[e].top # Auto THEN "top" ELSE "bottom"
            /\ Attached(e) <=> InRange(e, pageYOffset)
            /\ NoSide(e) =>
                  /\ ~Attached(e)
                  /\ style[e].position # Kw("fixed")
                  /\ fired[e] = <<>> /\ lastEvent[e] = NoEvent
                  /\ op.name \in {"scroll", "load", "resize"} => op.error = NoError
                  /\ op.name = "init" => op.error \in {NoError, AlreadyInitialized}

C15_Witness ==
    /\ op.name = "scroll" /\ op.error = NoError
    /\ Initialized(1) /\ NoSide(1)
    /\ expando[1][namespace].handlers.scroll.side = "bottom"
    /\ measured[1].on = "element" /\ IsNaN(measured[1].start)
    /\ ~Attached(1)

\* the range test on the boundaries the scroll handler of e measured last,
\* both ends included
MeasuredRangeTest(e) ==
    IF SticksToTop(e)
    THEN /\ Leq(measured[e].start, Num(pageYOffset))
         /\ Leq(Num(pageYOffset), measured[e].end)
    ELSE /\ Leq(measured[e].end, Num(pageYOffset + innerHeight))
         /\ Leq(Num(pageYOffset + innerHeight), measured[e].start)

\* the effective scroll position is at an end of the range of e
AtRangeEnd(e) ==
    \/ /\ SticksToTop(e) /\ TopStart(e) <= TopEnd(e)
       /\ pageYOffset \in {TopStart(e), TopEnd(e)}
    \/ /\ SticksToBottom(e) /\ BottomEnd(e) <= BottomStart(e)
       /\ pageYOffset + innerHeight \in {BottomStart(e), BottomEnd(e)}

\* C16: after every run of the scroll handler the element is sticking if and
\* only if the range test holds on the boundaries the handler computed, both
\* ends included: start <= pageYOffset <= end for a top element and
\* end <= pageYOffset + innerHeight <= start for a bottom element; so the
\* element is sticking when the effective scroll position equals start or end.
C16_InclusiveRange ==
    \A e \in doc :
        (Initialized(e) /\ measured[e] # NoBoundaries) =>
            /\ Attached(e) <=> MeasuredRangeTest(e)
            /\ AtRangeEnd(e) => Attached(e)

C16_Witness ==
    /\ op.name = "scroll"
    /\ Initialized(1) /\ SticksToBottom(1)
    /\ pageYOffset + innerHeight = BottomStart(1)
    /\ measured[1].start = Num(pageYOffset + innerHeight)
    /\ Attached(1)

\* the computed height of e as a number, 0 when it is not one
NumericHeight(e) == IF layout[e].heightAuto THEN 0 ELSE layout[e].height

TopGap(e) == TopEnd(e) - NumericHeight(e) - pageYOffset
BottomGap(e) == BottomEnd(e) + NumericHeight(e) - (pageYOffset + innerHeight)

\* C17: while the element is sticking, after a run of the scroll handler its
\* inline offset follows the gap rule.  Top: with gap = end - height -
\* pageYOffset, inline top is empty when gap - declaredTop >= 0 and gap px
\* otherwise.  Bottom: with gap = end + height - (pageYOffset + innerHeight),
\* inline bottom is empty when gap + declaredBottom <= 0 and -gap px
\* otherwise.  A computed height that is not a number counts as 0.
C17_GapRule ==
    \A e \in doc :
        (Attached(e) /\ measured[e] # NoBoundaries) =>
            /\ SticksToTop(e) =>
                  /\ style[e].top = IF TopGap(e) - sheet[e].top[2] >= 0 THEN Empty
                                    ELSE Px(TopGap(e))
                  /\ style[e].bottom = Empty
            /\ SticksToBottom(e) =>
                  /\ style[e].bottom = IF BottomGap(e) + sheet[e].bottom[2] <= 0 THEN Empty
                                       ELSE Px(0 - BottomGap(e))
                  /\ style[e].top = Empty

C17_Witness ==
    /\ op.name = "scroll"
    /\ Attached(1) /\ SticksToTop(1)
    /\ sheet[1].top = Px(1)
    /\ ~layout[1].heightAuto
    /\ TopGap(1) = 0
    /\ style[1].top = Px(0)

\* the boundaries the handler of e measured last are those of e's in-flow box
MeasuredInFlow(e) ==
    /\ measured[e].start = RefBoundaries(e).start
    /\ measured[e].end = RefBoundaries(e).end

\* C18: every run of the scroll handler computes the boundaries anew: on a
\* run that finds the placeholder attached they are measured on the
\* placeholder, on a run that finds it detached on the element, and in both
\* cases they are the boundaries of the in-flow box under the current
\* geometry, never those of the fixed box of the sticking element.
C18_MeasuredOnPlaceholder ==
    /\ [](\A e \in doc : (Initialized(e) /\ measured[e] # NoBoundaries) => MeasuredInFlow(e))
    /\ [][\A e \in doc :
             (op'.name \in {"scroll", "load"} /\ Initialized(e)) =>
                /\ measured'[e].on = IF Attached(e) THEN "placeholder" ELSE "element"
                /\ MeasuredInFlow(e)']_vars

C18_Witness ==
    /\ op.name = "scroll"
    /\ Attached(1) /\ SticksToTop(1)
    /\ lastEvent[1] = "stickystart" /\ fired[1] = <<>>
    /\ measured[1].on = "placeholder"
    /\ style[1].top = Px(0 - 1)
    /\ MeasuredInFlow(1)

\* C19: in every state between operations the element carries the configured
\* active class if and only if it is sticking (its placeholder is attached);
\* so the class is absent after destroy() and after a resize that leaves the
\* element out of range.
C19_ClassIffSticking ==
    \A e \in doc : (ConfiguredClass(e) \in classList[e]) <=> Attached(e)

\* C20: destroy() on an element that has no instance (never initialized, or
\* destroyed already) ends in an error and changes nothing: inline style,
\* class list, document and listeners are as before the call.
C20_DestroyWithoutInstance ==
    [][\A e \in doc :
          (op'.name = "destroy" /\ op'.element = e /\ ~Initialized(e)) =>
             /\ op'.error # NoError
             /\ style' = style
             /\ classList' = classList
             /\ children' = children
             /\ listeners' = listeners
             /\ expando' = expando]_vars

\* the edges of e's in-flow box and of its parent, relative to the viewport
BoxTopInViewport(e) == layout[e].parentTop + layout[e].offset - pageYOffset
BoxBottomInViewport(e) == BoxTopInViewport(e) + layout[e].height
ParentTopInViewport(e) == layout[e].parentTop - pageYOffset
ParentBottomInViewport(e) == ParentTopInViewport(e) + layout[e].parentHeight

\* the margins the scroll handler of e captured when it was built
CapturedMargins(e) == expando[e][namespace].handlers.scroll.stickyMargins

\* a margin as a number of px, 0 when it is not a number
MarginNumber(v) == IF v[1] \in {"px", "int"} THEN v[2] ELSE 0

\* with the layout unchanged, two successive measurements on e agree
SameWhenLayoutSame(e) ==
    (/\ Initialized(e) /\ Initialized(e)' /\ layout' = layout
     /\ measured[e] # NoBoundaries /\ measured'[e] # NoBoundaries) =>
        /\ measured'[e].start = measured[e].start
        /\ measured'[e].end = measured[e].end

\* C21: top case boundaries: start = (top edge of the measured box relative to
\* the viewport) - declaredTop + pageYOffset and end = (bottom edge of the
\* parent relative to the viewport) - stickyMarginBottom + pageYOffset, where
\* stickyMarginBottom is the margin-bottom the element has with the active
\* class, captured when the handler was built, and 0 when that is not a
\* number; with the layout unchanged the values are the same at every scroll
\* offset at which they are computed.
C21_TopBoundaries ==
    /\ [](\A e \in doc :
             (Initialized(e) /\ SticksToTop(e) /\ measured[e] # NoBoundaries) =>
                /\ CapturedMargins(e).marginBottom = sheet[e].activeMarginBottom
                /\ measured[e].start
                      = Num(BoxTopInViewport(e) - sheet[e].top[2] + pageYOffset)
                /\ measured[e].end
                      = Num(ParentBottomInViewport(e)
                              - MarginNumber(CapturedMargins(e).marginBottom) + pageYOffset))
    /\ [][\A e \in doc : SticksToTop(e) => SameWhenLayoutSame(e)]_vars

C21_Witness ==
    /\ op.name = "scroll" /\ pageYOffset > 0
    /\ Initialized(1) /\ SticksToTop(1)
    /\ CapturedMargins(1).marginBottom = Auto
    /\ measured[1].on = "placeholder"
    /\ measured[1].end = Num(layout[1].parentTop + layout[1].parentHeight)

\* e's in-flow box lies inside its parent
InsideParent(e) ==
    layout[e].offset >= 0 /\ layout[e].offset + layout[e].height <= layout[e].parentHeight

\* the bottom case formulas of start and end
BottomFormulas(e) ==
    /\ CapturedMargins(e).marginTop = sheet[e].activeMarginTop
    /\ SticksToBottom(e) =>
          measured[e].start = Num(BoxBottomInViewport(e) + sheet[e].bottom[2] + pageYOffset)
    /\ measured[e].end
          = Num(ParentTopInViewport(e) + MarginNumber(CapturedMargins(e).marginTop)
                  + pageYOffset)

\* C22: bottom case boundaries: start = (bottom edge of the measured box
\* relative to the viewport) + declaredBottom + pageYOffset and end = (top edge
\* of the parent relative to the viewport) + stickyMarginTop + pageYOffset,
\* stickyMarginTop being captured when the handler was built and 0 when it is
\* not a number; with the layout unchanged the values are the same at every
\* scroll offset; and end <= start exactly when stickyMarginTop is at most the
\* distance from the parent's top to the element's bottom plus declaredBottom.
C22_BottomBoundaries ==
    /\ [](\A e \in doc :
             (Initialized(e) /\ sheet[e].top = Auto /\ measured[e] # NoBoundaries) =>
                /\ BottomFormulas(e)
                /\ SticksToBottom(e) =>
                      (Leq(measured[e].end, measured[e].start)
                         <=> MarginNumber(CapturedMargins(e).marginTop)
                                <= layout[e].offset + layout[e].height + sheet[e].bottom[2]))
    /\ [][\A e \in doc : sheet[e].top = Auto => SameWhenLayoutSame(e)]_vars

C22_Witness ==
    /\ op.name = "scroll"
    /\ Initialized(1) /\ SticksToBottom(1) /\ InsideParent(1)
    /\ CapturedMargins(1).marginTop = Px(3)
    /\ measured[1].start = Num(layout[1].parentTop + layout[1].offset + layout[1].height)
    /\ measured[1].end = Num(layout[1].parentTop + 3)
    /\ ~Leq(measured[1].end, measured[1].start)
    /\ ~Attached(1)

\* C22 as stated: the bottom case formulas, and end <= start whenever the
\* element lies inside its parent.
C22_EndNeverAboveStart ==
    \A e \in doc :
        (Initialized(e) /\ SticksToBottom(e) /\ measured[e] # NoBoundaries) =>
            /\ BottomFormulas(e)
            /\ InsideParent(e) => Leq(measured[e].end, measured[e].start)

\* a further run of the scroll handler fn on the page as it is changes nothing
\* and dispatches nothing
SecondRunChangesNothing(fn) ==
    /\ scrollHandler(World, fn).style = style
    /\ scrollHandler(World, fn).classList = classList
    /\ scrollHandler(World, fn).children = children
    /\ scrollHandler(World, fn).expando = expando
    /\ scrollHandler(World, fn).listeners = listeners
    /\ scrollHandler(World, fn).fired[fn.sticky.element] = <<>>
    /\ scrollHandler(World, fn).error = NoError

PlaceholderNodes(e) == SelectSeq(children[e], LAMBDA n : n.kind = "placeholder")

\* C24: over any sequence of init, scroll, resize and destroy operations at
\* most one placeholder of an element is in the document, and a placeholder in
\* the document is the one held in the element's current data bag: none of a
\* destroyed or replaced instance stays behind.
C24_OnePlaceholder ==
    \A e \in doc :
        /\ Len(PlaceholderNodes(e)) <= 1
        /\ Len(PlaceholderNodes(e)) = 1 =>
              /\ Initialized(e)
              /\ PlaceholderNodes(e)[1] = PhNode(expando[e][namespace].placeholder.id)
        /\ Len(SelectSeq(children[e], LAMBDA n : n = ElNode(e))) = 1

C24_Witness ==
    /\ op.name = "resize" /\ op.error = NoError
    /\ lastEvent[1] = "stickystart" /\ fired[1] = <<"stickystart">>
    /\ Len(PlaceholderNodes(1)) = 1
    /\ Len(children[1]) = 2
    /\ PlaceholderBeforeElement(1)

\* C25: order inside a transition: a listener of stickystart finds the element
\* already position fixed and the placeholder already attached, but not yet
\* the active class; a listener of stickyend finds the placeholder already
\* detached and the inline position back at the value it had before the
\* element started sticking, but still the active class.
C25_OrderInsideTransition ==
    \A e \in doc : \A i \in 1..Len(seen[e]) :
        /\ seen[e][i].event = fired[e][i]
        /\ seen[e][i].event = "stickystart" =>
              /\ seen[e][i].position = Kw("fixed")
              /\ seen[e][i].attached
              /\ ConfiguredClass(e) \notin seen[e][i].classList
        /\ seen[e][i].event = "stickyend" =>
              /\ seen[e][i].position = preInit[e].position
              /\ seen[e][i].position # Kw("fixed")
              /\ ~seen[e][i].attached
              /\ ConfiguredClass(e) \in seen[e][i].classList

C25_Witness ==
    /\ op.name = "scroll"
    /\ preInit[1].position = Kw("static")
    /\ lastEvent[1] = "stickystart"
    /\ Len(seen[1]) = 1
    /\ seen[1][1].event = "stickyend"
    /\ seen[1][1].position = Kw("static")
    /\ seen[1][1].classList = {ConfiguredClass(1)}

\* the properties the placeholder takes from the element's computed style
ComputedProperties ==
    {"top", "bottom", "marginTop", "marginBottom", "marginLeft", "marginRight"}

\* a step of init or of a scroll in which the element starts sticking, and
\* nothing else happens to it
StartsSticking(e) ==
    /\ op'.name \in {"init", "scroll"}
    /\ op'.error = NoError
    /\ fired'[e] = <<"stickystart">>
    /\ op'.name = "init" => op'.element = e

\* the page as startSticky finds it in such a step: init has taken the active
\* class off the element when it captured the margins
BeforeSticking(e) ==
    IF op'.name = "init" THEN [World EXCEPT !.classList[e] = @ \ {ConfiguredClass(e)}]
    ELSE World

\* C26: on entering sticky mode the placeholder receives top, bottom and the
\* four margins from the element's computed style and width, height and left,
\* in px, from the element's bounding box, all as they are before the element
\* is made fixed (the box is the one in the flow); it is visibility hidden and
\* has an explicit z-index, the one init() gave it; and the element's inline
\* width, height, left, marginLeft, marginRight and zIndex equal the
\* placeholder's.
C26_PlaceholderTakesFootprint ==
    [][\A e \in doc : StartsSticking(e) =>
          LET before == ComputedStyle(BeforeSticking(e), e)
              placeholder == expando'[e][namespace].placeholder.style
          IN  /\ ComputedPosition(World, e) # Kw("fixed")
              /\ \A p \in ComputedProperties : placeholder[p] = before[p]
              /\ placeholder.width = Px(layout[e].width)
              /\ placeholder.height = Px(layout[e].height)
              /\ placeholder.left = Px(layout[e].left)
              /\ placeholder.visibility = Kw("hidden")
              /\ placeholder.zIndex[1] = "int"
              /\ op'.name = "scroll" =>
                    placeholder.zIndex = expando[e][namespace].placeholder.style.zIndex
              /\ \A i \in 1..Len(properties) :
                    style'[e][properties[i]] = placeholder[properties[i]]
              /\ style'[e].position = Kw("fixed")]_vars

C26_Witness ==
    /\ op.name = "scroll" /\ op.error = NoError
    /\ fired[1] = <<"stickystart">>
    /\ layout[1].width # layout[1].fixedWidth
    /\ sheet[1].zIndex = IntStr(5)
    /\ style[1].position = Kw("fixed")
    /\ style[1].width = Px(layout[1].width)
    /\ style[1].zIndex = IntStr(5)
    /\ expando[1][namespace].placeholder.style.width = Px(layout[1].width)
    /\ expando[1][namespace].placeholder.style.top = sheet[1].top
    /\ expando[1][namespace].placeholder.style.visibility = Kw("hidden")

\* the ten properties the library writes on a sticking element besides position
WrittenProperties ==
    {"width", "height", "left", "marginLeft", "marginRight", "zIndex",
     "marginTop", "marginBottom", "top", "bottom"}

\* a scroll in which the element stops sticking
StopsSticking(e) ==
    /\ op'.name = "scroll"
    /\ op'.error = NoError
    /\ fired'[e] = <<"stickyend">>

\* C27: on leaving sticky mode the element's inline width, height, left,
\* marginLeft, marginRight, zIndex, marginTop, marginBottom, top and bottom
\* are empty and its inline position is the value it had just before it
\* started sticking (the value startSticky put in the bag, which is the inline
\* position of the state before the step that started the sticking); every
\* other inline property is as it was.
C27_LeavingResetsStyle ==
    [][\A e \in doc :
          /\ StopsSticking(e) =>
                /\ \A p \in WrittenProperties : style'[e][p] = Empty
                /\ style'[e].position = expando[e][namespace].position
                /\ style'[e].position = preInit[e].position
                /\ \A p \in StyleProps \ (WrittenProperties \cup {"position"}) :
                      style'[e][p] = style[e][p]
          /\ (StartsSticking(e) /\ op'.name = "scroll") =>
                expando'[e][namespace].position = style[e].position]_vars

C27_Witness ==
    /\ op.name = "scroll" /\ op.error = NoError
    /\ fired[1] = <<"stickyend">>
    /\ preInit[1] = StyledInline
    /\ style[1] = [EmptyStyle EXCEPT !.position = Kw("static"),
                                     !.visibility = Kw("visible")]

\* the z-index the page gives the element: inline over the stylesheet
DeclaredZIndex(e) == IF style[e].zIndex # Empty THEN style[e].zIndex ELSE sheet[e].zIndex

\* the 1-based position of e in document order among the elements the
\* selector matches; 0 when it does not match e
DocumentPosition(e, selector) ==
    IF selector \in sheet[e].matches
    THEN Cardinality({x \in doc : x <= e /\ selector \in sheet[x].matches})
    ELSE 0

\* a step in which init() succeeds on e
NewlyInitialized(e) == ~Initialized(e) /\ Truthy(expando'[e][namespace])

\* C28: the z-index init() gives the placeholder is the element's computed
\* z-index when that is a number, 0 included, and otherwise the element's
\* 1-based position in document order among the elements matching the
\* configured selector, 0 when the element does not match it; and the inline
\* position is left as it was: it is the position the bag keeps, and the
\* position of the element unless init() made it stick at once.
C28_PlaceholderZIndex ==
    [][\A e \in doc : NewlyInitialized(e) =>
          LET data == expando'[e][namespace]
              selector == data.handlers.scroll.sticky.settings.selector
          IN  /\ data.placeholder.style.zIndex =
                    IF DeclaredZIndex(e)[1] = "int" THEN DeclaredZIndex(e)
                    ELSE IntStr(DocumentPosition(e, selector))
              /\ data.position = style[e].position
              /\ fired'[e] = <<>> => style'[e].position = style[e].position]_vars

C28_Witness ==
    /\ op.name = "autoInit" /\ op.error = NoError
    /\ pageYOffset = 0
    /\ sheet[1].zIndex = IntStr(0)
    /\ preInit[1].position = Kw("static") /\ style[1].position = Kw("static")
    /\ Initialized(1) /\ expando[1][namespace].placeholder.style.zIndex = IntStr(0)
    /\ Initialized(2) /\ expando[2][namespace].placeholder.style.zIndex = IntStr(2)

\* an element configured with a selector that does not match it
C28_WitnessNoMatch ==
    /\ op.name = "init" /\ op.element = 1 /\ op.error = NoError
    /\ options[1] = PinnedOptions /\ ".pinned" \notin sheet[1].matches
    /\ expando[1][namespace].placeholder.style.zIndex = IntStr(0)
    /\ sheet[1].zIndex = Auto

\* the first element in document order that autoInit(o) selects and that has
\* an instance already
FirstInitialized(o) ==
    CHOOSE k \in Matching(o) :
        Initialized(k) /\ \A x \in Matching(o) : x < k => ~Initialized(x)

\* nothing of e and of its parent has changed in the step
LeftAsItWas(e) ==
    /\ expando'[e] = expando[e]
    /\ style'[e] = style[e]
    /\ classList'[e] = classList[e]
    /\ children'[e] = children[e]
    /\ ListenersOf(e)' = ListenersOf(e)

\* C29: Sticky.autoInit(options) meeting a matching element that is already
\* initialized throws the double-initialization error there and stops: the
\* matching elements before it in document order are newly initialized and
\* stay so, that element and the matching elements after it are left as they
\* were (an uninitialized one stays uninitialized), nothing is rolled back.
\* After any autoInit the first match is initialized, so that the same call
\* once more fails at the first match and changes nothing.
C29_AutoInitStopsAtInitialized ==
    [][\A o \in AutoInitOptions :
          (op'.name = "autoInit" /\ AutoInit(o)) =>
             /\ (\E e \in Matching(o) : Initialized(e)) =>
                   LET k == FirstInitialized(o)
                       before == {e \in Matching(o) : e < k}
                   IN  /\ op'.error = AlreadyInitialized
                       /\ \A e \in before :
                              /\ Initialized(e)'
                              /\ expando'[e][namespace].handlers.scroll.sticky = Controller(e, o)
                              /\ Cardinality(ListenersOf(e)') = 3
                       /\ \A e \in doc \ before :
                              /\ LeftAsItWas(e)
                              /\ Initialized(e)' <=> Initialized(e)
                       /\ Len(listeners') = Len(listeners) + 3 * Cardinality(before)
                       /\ before = {} => listeners' = listeners
             /\ \A e \in Matching(o) :
                   (\A x \in Matching(o) : e <= x) => Initialized(e)']_vars

C29_Witness ==
    /\ op.name = "autoInit" /\ op.error = AlreadyInitialized
    /\ Initialized(1) /\ Initialized(2)
    /\ preInit[1] = EmptyStyle
    /\ expando[1][namespace].handlers.scroll.sticky = Controller(1, StuckOptions)
    /\ expando[2][namespace].handlers.scroll.sticky = Controller(2, PinnedOptions)
    /\ Len(listeners) = 6
    /\ listeners[1].fn.sticky.element = 2

\* the properties of a stored value
Keys(value) == IF value \in StoredBags THEN DOMAIN value ELSE {}

\* what a Store with namespace ns gives for the object after the step
Got(ns, object, property) == getData(ns, expando'[object], property)

\* the round trip of the store for the properties in names
RoundTrip(names) ==
    \A object \in StoreObjects, ns \in Namespaces :
        LET other == CHOOSE n \in Namespaces : n # ns
        IN  /\ (op'.name = "setData" /\ op'.element = object /\ op'.namespace = ns) =>
                  /\ Got(ns, object, NoProperty) = op'.value
                  /\ \A key \in Keys(op'.value) \cap names :
                        Got(ns, object, key) = op'.value[key]
                  /\ \A key \in (Keys(expando[object][ns]) \ Keys(op'.value)) \cap names :
                        Got(ns, object, key) # expando[object][ns][key]
                  /\ \A key \in names \cup {NoProperty} :
                        Got(other, object, key) = getData(other, expando[object], key)
            /\ (op'.name = "removeData" /\ op'.element = object /\ op'.namespace = ns) =>
                  /\ Got(ns, object, NoProperty) = Undefined
                  /\ \A key \in names : Got(ns, object, key) = Undefined
                  /\ \A key \in names \cup {NoProperty} :
                        Got(other, object, key) = getData(other, expando[object], key)

\* C30: store round trip: after setData(object, value), getData(object) is
\* value and getData(object, key) is value[key] for every key of value; a key
\* of the value stored before that the new value lacks no longer gives what
\* it gave; after removeData(object), getData(object) and getData(object, key)
\* are undefined; and neither call changes what a Store with another
\* namespace gets.
C30_StoreRoundTrip == [][RoundTrip(StoreProperties)]_vars

\* the same for the properties with a name that is not the empty string
C30_RoundTripOfNamedProperties == [][RoundTrip(StoreProperties \ {""})]_vars

C30_WitnessNamed ==
    /\ op.name = "setData" /\ op.namespace = namespace
    /\ op.value = [placeholder |-> [number |-> 1]]
    /\ getData(namespace, expando[1], "placeholder") = [number |-> 1]
    /\ getData(namespace, expando[1], "handlers") = Undefined
    /\ getData("other", expando[1], "handlers") = [number |-> 1]

====
